---- MODULE Spec2Model ----
(***************************************************************************)
(* Model of c8488 (src/src/main.rs): reassembly of 64-byte HID frames of a *)
(* weather-station console into messages (struct Message), and the control *)
(* loop of main that feeds frames to it.  Strings and buffers are modelled *)
(* as sequences of byte values 0..255.                                     *)
(***************************************************************************)
EXTENDS Integers, Sequences, FiniteSets, TLC

\* msg   the accumulator (main's msg, or the Message a caller drives)
\* buf   the bytes handed to push: &buf[..len] of the current read
\* res   the result of the last push ("None" before the first)
\* pre   the accumulator as it was before the push in progress
\* pc    the position of the control loop, or of the caller
\* fin   what finish() returned in this iteration, <<>> when not called
\* plan, sent   the message a well-behaved sender sends, and the payloads
\*       it has sent so far (for the encoder alone: the tokens of the body)
\* log   the warnings logged in this iteration of the control loop
\* out, udp   the lines printed, and the datagrams sent, in this iteration
\* i     the control loop's countdown to the next printed record
\* opts  the command line: --every, --station, and whether --target is set
\* cause why the process ended ("" while it runs)
\* track what the frames read last amount to, as a device would mean them:
\*       the first k fragments of a message of type t and total n
\* nth   the number of completed 0xfe messages so far, counted modulo
\*       every + 1
VARIABLES msg, buf, res, pre, pc, fin, plan, sent, log, out, udp, i, opts, cause,
          track, nth

vars == <<msg, buf, res, pre, pc, fin, plan, sent, log, out, udp, i, opts, cause,
          track, nth>>

(***************************************************************************)
(* Program constants.                                                      *)
(***************************************************************************)
FrameLen == 64
SlotLen == 54
EndMarker == 253
HumanType == 254

(***************************************************************************)
(* Bounds of the model.                                                    *)
(***************************************************************************)
MaxTotal == 2
MaxEvery == 2

(***************************************************************************)
(* Byte-sequence helpers.                                                  *)
(***************************************************************************)
Fill(n, b) == [k \in 1..n |-> b]

\* The concatenation of a sequence of sequences.
RECURSIVE Concat(_)
Concat(ss) ==
    IF Len(ss) = 0 THEN <<>>
    ELSE IF Len(ss) = 1 THEN ss[1]
    ELSE LET h == Len(ss) \div 2
         IN  Concat(SubSeq(ss, 1, h)) \o Concat(SubSeq(ss, h + 1, Len(ss)))

(***************************************************************************)
(* std::str::from_utf8 as used at main.rs:61: well-formed UTF-8 only.  A   *)
(* character starts at every byte that is not a continuation byte; each    *)
(* start must be a legal lead byte followed by exactly the continuation    *)
(* bytes its width asks for, the first of them in the range that excludes  *)
(* overlong forms, surrogates and code points above U+10FFFF.              *)
(***************************************************************************)
IsCont(b) == b >= 128 /\ b <= 191

Width(b) ==
    IF b < 128 THEN 1
    ELSE IF b >= 194 /\ b <= 223 THEN 2
    ELSE IF b >= 224 /\ b <= 239 THEN 3
    ELSE IF b >= 240 /\ b <= 244 THEN 4
    ELSE 0

SecondOk(lead, b) ==
    IF lead = 224 THEN b >= 160 /\ b <= 191
    ELSE IF lead = 237 THEN b >= 128 /\ b <= 159
    ELSE IF lead = 240 THEN b >= 144 /\ b <= 191
    ELSE IF lead = 244 THEN b >= 128 /\ b <= 143
    ELSE IsCont(b)

IsUtf8(s) ==
    LET n == Len(s)
    IN  /\ n > 0 => ~IsCont(s[1])
        /\ \A k \in 1..n :
              \/ IsCont(s[k])
              \/ LET w == Width(s[k])
                 IN  /\ w > 0
                     /\ k + w - 1 <= n
                     /\ w >= 2 => SecondOk(s[k], s[k + 1])
                     /\ \A j \in (k + 2)..(k + w - 1) : IsCont(s[j])
                     /\ k + w <= n => ~IsCont(s[k + w])

(***************************************************************************)
(* struct Message and its methods.                                         *)
(***************************************************************************)
Default == [data |-> <<>>, typ |-> 0, length |-> 0, current |-> 0]

complete(self) == self.typ # 0 /\ self.current = self.length

finish(self) == <<self.typ, self.data>>

\* The fields push reads from a 64-byte buffer (0-based offsets of the
\* source are 1-based here).
MsgType(b) == b[1]
MsgLength(b) == b[6] \div 16
MsgIndex(b) == b[6] % 16
PayloadLength(b) == b[7]
Slot(b) == SubSeq(b, 8, 61)
End(b) == b[64]

\* Message::push.  The result is the Result's variant ("Ok", "Buffer",
\* "Format", "Utf8Error", "Complete"), or "Panic" when slicing the payload
\* slot beyond its 54 bytes aborts the call; self is the accumulator after
\* the call.
Adopt(self, b) ==
    IF self.typ = 0
    THEN [self EXCEPT !.typ = MsgType(b), !.length = MsgLength(b)]
    ELSE self

\* Matches without the comparison of the fragment index.
MatchesNoIndex(self, b) ==
    <<self.typ, self.length, EndMarker>> = <<MsgType(b), MsgLength(b), End(b)>>

Matches(self, b) ==
    <<self.typ, self.length, (self.current + 1) % 256, EndMarker>>
        = <<MsgType(b), MsgLength(b), MsgIndex(b), End(b)>>

\* The payload taken as the whole slot, whatever the payload length.
PayloadWholeSlot(b) == Slot(b)

Payload(b) == SubSeq(Slot(b), 1, PayloadLength(b))

Accept(self, b) ==
    [self EXCEPT !.data = self.data \o Payload(b),
                 !.current = (self.current + 1) % 256]

\* push that only rejects buffers shorter than a frame.
PushLongAllowed(self, b) ==
    IF Len(b) < FrameLen THEN [res |-> "Buffer", self |-> self]
    ELSE IF PayloadLength(b) > SlotLen THEN [res |-> "Panic", self |-> self]
    ELSE LET a == Adopt(self, b)
         IN  IF a.current >= a.length THEN [res |-> "Complete", self |-> a]
             ELSE IF ~Matches(a, b) THEN [res |-> "Format", self |-> a]
             ELSE IF ~IsUtf8(Payload(b)) THEN [res |-> "Utf8Error", self |-> a]
             ELSE [res |-> "Ok", self |-> Accept(a, b)]

Push(self, b) ==
    IF Len(b) # FrameLen THEN [res |-> "Buffer", self |-> self]
    ELSE IF PayloadLength(b) > SlotLen THEN [res |-> "Panic", self |-> self]
    ELSE LET a == Adopt(self, b)
         IN  IF a.current >= a.length THEN [res |-> "Complete", self |-> a]
             ELSE IF ~Matches(a, b) THEN [res |-> "Format", self |-> a]
             ELSE IF ~IsUtf8(Payload(b)) THEN [res |-> "Utf8Error", self |-> a]
             ELSE [res |-> "Ok", self |-> Accept(a, b)]

(***************************************************************************)
(* idb: the line-protocol record of a message body.  Text is a sequence of *)
(* bytes; the names below are the bytes of the source's string literals.   *)
(***************************************************************************)
Space == 32
Comma == 44
Equals == 61
Quote == 34
Underscore == 95
Placeholder == {45, 46}  \* "-."

Measurement == <<119, 101, 97, 116, 104, 101, 114, 44, 115, 116, 97, 116, 105, 111, 110, 61>>  \* "weather,station="
Octant == <<111, 99, 116, 97, 110, 116>>  \* "octant"

Keys == <<
    <<99, 104, 97, 110, 110, 101, 108>>,  \* channel
    <<95, 100, 97, 116, 101>>,  \* _date
    <<95, 116, 105, 109, 101>>,  \* _time
    <<105, 110, 100, 111, 111, 114, 95, 116, 101, 109, 112>>,  \* indoor_temp
    <<105, 110, 100, 111, 111, 114, 95, 104, 117, 109, 105, 100, 105, 116, 121>>,  \* indoor_humidity
    <<116, 101, 109, 112>>,  \* temp
    <<104, 117, 109, 105, 100, 105, 116, 121>>,  \* humidity
    <<114, 97, 105, 110>>,  \* rain
    <<114, 97, 116, 101>>,  \* rate
    <<119, 105, 110, 100>>,  \* wind
    <<103, 117, 115, 116>>,  \* gust
    <<100, 105, 114>>,  \* dir
    <<119, 105, 110, 100, 95, 111, 99, 116, 97, 110, 116>>,  \* wind_octant
    <<112, 114, 101, 115, 115, 117, 114, 101>>,  \* pressure
    <<112, 114, 101, 115, 115, 117, 114, 101, 95, 108, 111, 99, 97, 108>>,  \* pressure_local
    <<117, 118, 95, 105, 110, 100, 101, 120>>,  \* uv_index
    <<100, 101, 119>>,  \* dew
    <<111, 117, 116, 100, 111, 111, 114, 95, 104, 101, 97, 116, 95, 105, 110, 100, 101, 120>>,  \* outdoor_heat_index
    <<115, 101, 110, 115, 111, 114, 49, 95, 116, 101, 109, 112>>,  \* sensor1_temp
    <<115, 101, 110, 115, 111, 114, 49, 95, 104, 117, 109, 105, 100, 105, 116, 121>>,  \* sensor1_humidity
    <<115, 101, 110, 115, 111, 114, 50, 95, 116, 101, 109, 112>>,  \* sensor2_temp
    <<115, 101, 110, 115, 111, 114, 50, 95, 104, 117, 109, 105, 100, 105, 116, 121>>,  \* sensor2_humidity
    <<115, 101, 110, 115, 111, 114, 51, 95, 116, 101, 109, 112>>,  \* sensor3_temp
    <<115, 101, 110, 115, 111, 114, 51, 95, 104, 117, 109, 105, 100, 105, 116, 121>>,  \* sensor3_humidity
    <<115, 101, 110, 115, 111, 114, 52, 95, 116, 101, 109, 112>>,  \* sensor4_temp
    <<115, 101, 110, 115, 111, 114, 52, 95, 104, 117, 109, 105, 100, 105, 116, 121>>,  \* sensor4_humidity
    <<115, 101, 110, 115, 111, 114, 53, 95, 116, 101, 109, 112>>,  \* sensor5_temp
    <<115, 101, 110, 115, 111, 114, 53, 95, 104, 117, 109, 105, 100, 105, 116, 121>>,  \* sensor5_humidity
    <<115, 101, 110, 115, 111, 114, 54, 95, 116, 101, 109, 112>>,  \* sensor6_temp
    <<115, 101, 110, 115, 111, 114, 54, 95, 104, 117, 109, 105, 100, 105, 116, 121>>,  \* sensor6_humidity
    <<115, 101, 110, 115, 111, 114, 55, 95, 116, 101, 109, 112>>,  \* sensor7_temp
    <<115, 101, 110, 115, 111, 114, 55, 95, 104, 117, 109, 105, 100, 105, 116, 121>>  \* sensor7_humidity
>>

\* str::split(' '): the pieces between single spaces, empty pieces kept.
\* The cuts are the positions of the spaces and the two ends of the text,
\* in ascending order.
Cuts(s) ==
    LET IsCut(k) == k = 0 \/ k = Len(s) + 1 \/ s[k] = Space
    IN  SelectSeq([j \in 1..(Len(s) + 2) |-> j - 1], IsCut)

Split(s) ==
    LET cuts == Cuts(s)
    IN  [j \in 1..(Len(cuts) - 1) |-> SubSeq(s, cuts[j] + 1, cuts[j + 1] - 1)]

StartsWith(s, c) == Len(s) > 0 /\ s[1] = c

EndsWith(s, suffix) ==
    /\ Len(s) >= Len(suffix)
    /\ SubSeq(s, Len(s) - Len(suffix) + 1, Len(s)) = suffix

\* The test that never finds a placeholder.
NeverPlaceholder(value) == FALSE

\* The test that takes only dashes for a placeholder.
DashesOnly(value) == \A k \in 1..Len(value) : value[k] = 45

\* value.chars().all(|s| "-.".contains(s))
AllPlaceholder(value) == \A k \in 1..Len(value) : value[k] \in Placeholder

\* The pair written without the quotes of the wind octant.
FieldUnquoted(value, key) ==
    IF StartsWith(key, Underscore) \/ AllPlaceholder(value) THEN <<>>
    ELSE key \o <<Equals>> \o value \o <<Comma>>

\* The body of the for loop: what one (value, key) pair appends to s.
Field(value, key) ==
    IF StartsWith(key, Underscore) \/ AllPlaceholder(value) THEN <<>>
    ELSE key \o <<Equals>>
             \o (IF EndsWith(key, Octant) THEN <<Quote>> ELSE <<>>)
             \o value
             \o (IF EndsWith(key, Octant) THEN <<Quote>> ELSE <<>>)
             \o <<Comma>>

Min(a, b) == IF a < b THEN a ELSE b

\* pop left out: the text keeps its last character.
PopNothing(s) == s

\* String::pop: the text without its last character (here always one byte,
\* a space or a comma).
Pop(s) == IF s = <<>> THEN s ELSE SubSeq(s, 1, Len(s) - 1)

\* idb that renders nothing unless the body has a token for every key.
idbWholeShape(body, station) ==
    LET values == Split(body)
    IN  IF Len(values) < Len(Keys) THEN <<>>
        ELSE Pop(Measurement \o station \o <<Space>>
                 \o Concat([k \in 1..Len(Keys) |-> Field(values[k], Keys[k])]))

idb(body, station) ==
    LET values == Split(body)
        n == Min(Len(values), Len(Keys))
    IN  Pop(Measurement \o station \o <<Space>>
            \o Concat([k \in 1..n |-> Field(values[k], Keys[k])]))

(***************************************************************************)
(* The frames the device (or a caller of push) may supply.  A frame is     *)
(* type, history length and index (2 bytes each, ignored), the packed      *)
(* total/index byte, the payload length, the 54-byte payload slot, the     *)
(* checksum (2 bytes, ignored) and the end marker.                         *)
(***************************************************************************)
MkFrame(t, b5, pl, slot, e) == <<t, 0, 0, 0, 0, b5, pl>> \o slot \o <<0, 0, e>>

\* "A" followed by lone continuation bytes, "A" followed by spaces, and
\* U+00E9 (two bytes) followed by spaces.
SlotA == <<65>> \o Fill(SlotLen - 1, 128)
SlotB == <<65>> \o Fill(SlotLen - 1, 32)
SlotE == <<195, 169>> \o Fill(SlotLen - 2, 32)

Types == {0, HumanType, 251}
Packed == {16 * tot + idx : tot \in 0..MaxTotal, idx \in 0..MaxTotal}
Ends == {EndMarker, 0}
\* <<payload length, slot>>: text of one byte, of one character of two
\* bytes and of the whole slot; text cut inside a character; a whole slot
\* that is not text; and a length beyond the slot.
Payloads == {<<1, SlotA>>, <<1, SlotB>>, <<2, SlotE>>, <<SlotLen, SlotB>>,
             <<1, SlotE>>, <<SlotLen, SlotA>>, <<SlotLen + 1, SlotA>>}

Frames == {MkFrame(t, b5, p[1], p[2], e) :
              t \in Types, b5 \in Packed, p \in Payloads, e \in Ends}

\* Buffers of another length: nothing, frames short of their last byte,
\* and frames with one byte more.
Samples == {MkFrame(t, b5, 1, SlotB, e) : t \in Types, b5 \in Packed, e \in Ends}
BadLength == {<<>>} \cup {SubSeq(f, 1, FrameLen - 1) : f \in Samples}
                    \cup {f \o <<EndMarker>> : f \in Samples}

Buffers == Frames \cup BadLength

(***************************************************************************)
(* The accumulator driven by an arbitrary caller: any buffer may be pushed *)
(* at any time.  A push that panics ends the run.                          *)
(***************************************************************************)
NoBuf == <<>>
\* Nothing tracked, and the last push gave no recoverable error.
NoTrack == [k |-> 0, t |-> 0, n |-> 0, body |-> <<>>, after |-> FALSE, lost |-> FALSE, err |-> FALSE]

NoPlan == [t |-> 0, n |-> 0]

\* "c8488", the default of --station.
Station == <<99, 56, 52, 56, 56>>
DefaultOpts == [every |-> 0, station |-> Station, target |-> FALSE]

InitPush ==
    /\ msg = Default
    /\ buf = NoBuf
    /\ res = "None"
    /\ pre = Default
    /\ pc = "api"
    /\ fin = <<>>
    /\ plan = NoPlan
    /\ sent = <<>>
    /\ log = <<>>
    /\ out = <<>>
    /\ udp = <<>>
    /\ i = 0
    /\ opts = DefaultOpts
    /\ cause = ""
    /\ track = NoTrack
    /\ nth = 0

\* msg.push(b), with the accumulator before the call kept in pre.
CallPush(b) ==
    LET r == Push(msg, b)
    IN  /\ buf' = b
        /\ pre' = msg
        /\ res' = r.res
        /\ msg' = r.self

ApiPush ==
    /\ pc = "api"
    /\ \E b \in Buffers : CallPush(b)
    /\ pc' = IF res' = "Panic" THEN "panic" ELSE "called"
    /\ UNCHANGED <<fin, plan, sent, log, out, udp, i, opts, cause, track, nth>>

\* The call has returned: its argument is out of scope.
ApiReturn ==
    /\ pc = "called"
    /\ pc' = "api"
    /\ buf' = NoBuf
    /\ pre' = Default
    /\ res' = "None"
    /\ UNCHANGED <<msg, fin, plan, sent, log, out, udp, i, opts, cause, track, nth>>

NextPush == ApiPush \/ ApiReturn

SpecPush == InitPush /\ [][NextPush]_vars

\* A push has just been made: buf is its argument, pre the accumulator
\* before it, msg the accumulator after it and res its result.
Called == pc \in {"called", "panic"}

(***************************************************************************)
(* A well-behaved sender: it sends the fragments of one message of plan.n  *)
(* fragments and type plan.t in order, each with a text of at most 54      *)
(* bytes in a slot padded with bytes that are not part of it, and the      *)
(* receiver calls finish() after the last.                                 *)
(***************************************************************************)
Texts == {<<>>, <<65>>, <<195, 169>>, <<66>> \o Fill(SlotLen - 1, 32)}
Pads == {32, 128}

Fragment(t, n, k, text, pad) ==
    MkFrame(t, 16 * n + k, Len(text), text \o Fill(SlotLen - Len(text), pad), EndMarker)

InitValid ==
    /\ msg = Default
    /\ buf = NoBuf
    /\ res = "None"
    /\ pre = Default
    /\ pc = "api"
    /\ fin = <<>>
    /\ plan \in {[t |-> t, n |-> n] : t \in Types \ {0}, n \in 1..MaxTotal}
    /\ sent = <<>>
    /\ log = <<>>
    /\ out = <<>>
    /\ udp = <<>>
    /\ i = 0
    /\ opts = DefaultOpts
    /\ cause = ""
    /\ track = NoTrack
    /\ nth = 0

SendNext ==
    /\ pc = "api"
    /\ Len(sent) < plan.n
    /\ \E text \in Texts, pad \in Pads :
          /\ CallPush(Fragment(plan.t, plan.n, Len(sent) + 1, text, pad))
          /\ sent' = Append(sent, text)
    /\ pc' = IF res' = "Panic" THEN "panic" ELSE "api"
    /\ UNCHANGED <<fin, plan, log, out, udp, i, opts, cause, track, nth>>

TakeFinish ==
    /\ pc = "api"
    /\ Len(sent) = plan.n
    /\ fin' = finish(msg)
    /\ pc' = "taken"
    /\ UNCHANGED <<msg, buf, res, pre, plan, sent, log, out, udp, i, opts, cause, track, nth>>

NextValid == SendNext \/ TakeFinish

SpecValid == InitValid /\ [][NextValid]_vars

(***************************************************************************)
(* Properties of the accumulator.                                          *)
(***************************************************************************)

\* C1: when the N fragments of a message of non-zero type t are pushed in
\* order into an empty accumulator, each with a text of at most 54 bytes,
\* every push returns Ok, complete() is false after each of the first N-1
\* pushes and true after the Nth, and finish() returns t with the texts
\* concatenated in order.
ValidRunDelivers ==
    /\ pc \in {"api", "taken"}
    /\ sent # <<>> => res = "Ok"
    /\ complete(msg) <=> Len(sent) = plan.n
    /\ msg.data = Concat(sent)
    /\ pc = "taken" => fin = <<plan.t, Concat(sent)>>

\* A message of two different non-empty fragments has been taken.
ValidRunWitness ==
    /\ pc = "taken"
    /\ Len(sent) = 2
    /\ sent[1] = <<195, 169>>
    /\ Len(sent[2]) = SlotLen

\* The length the accumulator declares once push has adopted the frame's
\* type and total, when its own type was unset.
DeclaredAfter(self, b) == IF self.typ = 0 THEN MsgLength(b) ELSE self.length

OutOfOrder == Called /\ Len(buf) = FrameLen /\ MsgIndex(buf) # pre.current + 1

\* C2 as stated: a 64-byte frame whose fragment index is not
\* received_fragments + 1 always yields the sequencing error (Format) and
\* leaves data unchanged.
OutOfOrderIsFormat ==
    OutOfOrder => res = "Format" /\ msg.data = pre.data

\* C2 as amended: such a frame is never accepted and leaves data and
\* received_fragments unchanged; the result is the sequencing error when
\* the payload length is at most 54 and received_fragments is below the
\* declared length, Complete when it is not below it, and a panic when the
\* payload length exceeds 54.
OutOfOrderNeverAccepted ==
    OutOfOrder =>
        /\ msg.data = pre.data
        /\ msg.current = pre.current
        /\ res = IF PayloadLength(buf) > SlotLen THEN "Panic"
                 ELSE IF pre.current >= DeclaredAfter(pre, buf) THEN "Complete"
                 ELSE "Format"

\* The second fragment of a two-fragment message pushed first.
OutOfOrderWitness ==
    /\ OutOfOrder
    /\ pre = Default
    /\ MsgType(buf) = HumanType
    /\ MsgLength(buf) = 2
    /\ MsgIndex(buf) = 2
    /\ End(buf) = EndMarker
    /\ res = "Format"

\* C3 as stated: once the type is non-zero, type and total_fragments never
\* change; received_fragments changes only by +1 and only on a push that
\* returns Ok; received_fragments never exceeds total_fragments.
FieldsFixedAndBounded ==
    /\ msg.current <= msg.length
    /\ Called =>
          /\ pre.typ # 0 => msg.typ = pre.typ /\ msg.length = pre.length
          /\ msg.current # pre.current =>
                msg.current = pre.current + 1 /\ res = "Ok"

\* The four conditions of acceptance, against the accumulator's type and
\* length as adopted by this push.
Conditions(self, b) ==
    <<MsgType(b) = (IF self.typ = 0 THEN MsgType(b) ELSE self.typ),
      MsgLength(b) = DeclaredAfter(self, b),
      MsgIndex(b) = self.current + 1,
      End(b) = EndMarker>>

Violated(self, b) == {k \in 1..4 : ~Conditions(self, b)[k]}

\* C4 as stated: a 64-byte frame is accepted only if all four conditions
\* hold; on an accumulator that is not complete, a frame that violates
\* exactly one of them yields the sequencing error.
AcceptedIffAllFour ==
    (Called /\ Len(buf) = FrameLen) =>
        /\ res = "Ok" =>
              /\ Violated(pre, buf) = {}
              /\ msg.data = pre.data \o SubSeq(buf, 8, 7 + PayloadLength(buf))
        /\ (~complete(pre) /\ Cardinality(Violated(pre, buf)) = 1) => res = "Format"

\* C5: a buffer whose length is not 64 yields Buffer and leaves the
\* accumulator as it was.
WrongLengthIsBuffer ==
    (Called /\ Len(buf) # FrameLen) => res = "Buffer" /\ msg = pre

\* A 65-byte buffer pushed into an accumulator that holds a fragment.
WrongLengthWitness ==
    /\ Called
    /\ Len(buf) = FrameLen + 1
    /\ pre.current > 0
    /\ res = "Buffer"

\* C6 as stated: on a complete accumulator every 64-byte frame yields
\* Complete and leaves the accumulator as it was.
CompleteRejectsAll ==
    (Called /\ Len(buf) = FrameLen /\ complete(pre)) =>
        res = "Complete" /\ msg = pre

\* The frame passes the sequencing checks of push.
InSequence(self, b) ==
    /\ self.current < DeclaredAfter(self, b)
    /\ Violated(self, b) = {}

\* C7 as stated: a 64-byte frame that passes the sequencing checks is
\* decoded from the first payload_length bytes at offset 7: valid UTF-8 is
\* appended and received_fragments incremented; otherwise the result is
\* Utf8Error and data and received_fragments are unchanged.
PayloadDecoded ==
    (Called /\ Len(buf) = FrameLen /\ InSequence(pre, buf)) =>
        LET text == SubSeq(buf, 8, 7 + PayloadLength(buf))
        IN  IF IsUtf8(text)
            THEN /\ res = "Ok"
                 /\ msg.data = pre.data \o text
                 /\ msg.current = pre.current + 1
            ELSE /\ res = "Utf8Error"
                 /\ msg.data = pre.data
                 /\ msg.current = pre.current

(***************************************************************************)
(* The control loop of main (lines 171-209).  The state is that on entry   *)
(* to the loop.  buf, pre, res, fin, log, out and udp describe the current *)
(* iteration and are cleared when the loop starts over.                    *)
(***************************************************************************)
\* What dev.read can return into the 64-byte buffer: a frame or less.
Reads == {b \in Buffers : Len(b) <= FrameLen}

\* The command lines: --every 0..MaxEvery, the default without a target,
\* --every 1 with one.
Options == {[every |-> k, station |-> Station, target |-> (k = 1)] : k \in 0..MaxEvery}

Init ==
    /\ msg = Default
    /\ buf = NoBuf
    /\ res = "None"
    /\ pre = Default
    /\ pc = "read"
    /\ fin = <<>>
    /\ plan = NoPlan
    /\ sent = <<>>
    /\ log = <<>>
    /\ out = <<>>
    /\ udp = <<>>
    /\ i = 0
    /\ opts \in Options
    /\ cause = ""
    /\ track = NoTrack
    /\ nth = 0

\* The arms of the match on push's result (lines 174-182): which results
\* make the loop reset the accumulator, and which of them are logged.
\* The match without the arm for Complete: only the logged errors reset.
ResetsLoggedOnly(r) == r \in {"Format", "Utf8Error"}

Resets(r) == r \in {"Complete", "Format", "Utf8Error"}

\* A match that logs the sequencing error only.
WarnedFormatOnly(r) == r = "Format"

Warned(r) == r \in {"Format", "Utf8Error"}

AssemblerWarning(r) == [level |-> "warn", text |-> "assembler error, resetting", err |-> r]

UnknownWarning(typ, body) == [level |-> "warn", text |-> "unknown message type", typ |-> typ, body |-> body]

(***************************************************************************)
(* The frames read, as the device means them.  A frame is a valid first    *)
(* fragment when it has 64 bytes, a non-zero type, a total of at least 1,  *)
(* index 1, the end marker and a payload of at most 54 bytes of UTF-8; a   *)
(* valid next fragment of the message tracked has its type and total, the  *)
(* next index, the end marker and such a payload.  track follows the last  *)
(* run of such frames: after says that the push before its first fragment *)
(* returned a recoverable error, lost that the push of its first fragment  *)
(* did, err that the last push did.                                        *)
(***************************************************************************)
ValidPayload(b) ==
    PayloadLength(b) <= SlotLen /\ IsUtf8(SubSeq(b, 8, 7 + PayloadLength(b)))

ValidFirst(b) ==
    /\ Len(b) = FrameLen
    /\ MsgType(b) # 0
    /\ MsgLength(b) >= 1
    /\ MsgIndex(b) = 1
    /\ End(b) = EndMarker
    /\ ValidPayload(b)

ValidNext(tr, b) ==
    /\ tr.k >= 1
    /\ tr.k < tr.n
    /\ Len(b) = FrameLen
    /\ MsgType(b) = tr.t
    /\ MsgLength(b) = tr.n
    /\ MsgIndex(b) = tr.k + 1
    /\ End(b) = EndMarker
    /\ ValidPayload(b)

Tracked(tr, b, r) ==
    LET e == r \in {"Format", "Complete", "Utf8Error"}
    IN  IF ValidFirst(b)
        THEN [k |-> 1, t |-> MsgType(b), n |-> MsgLength(b),
              body |-> SubSeq(b, 8, 7 + PayloadLength(b)),
              after |-> tr.err, lost |-> e, err |-> e]
        ELSE IF ValidNext(tr, b)
        THEN [tr EXCEPT !.k = @ + 1,
                        !.body = @ \o SubSeq(b, 8, 7 + PayloadLength(b)),
                        !.err = e]
        ELSE [NoTrack EXCEPT !.err = e]

\* Lines 172-182: read a frame, push it, and match on the result.
ReadPush ==
    /\ pc = "read"
    /\ \E b \in Reads : CallPush(b)
    /\ pc' = IF res' = "Panic" THEN "panic"
             ELSE IF res' = "Buffer" THEN "exit"
             ELSE IF Resets(res') THEN "reset"
             ELSE "check"
    /\ cause' = IF res' \in {"Panic", "Buffer"} THEN res' ELSE cause
    /\ log' = IF Warned(res') THEN <<AssemblerWarning(res')>> ELSE log
    /\ track' = Tracked(track, buf', res')
    /\ UNCHANGED <<fin, plan, sent, out, udp, i, opts, nth>>

\* Line 172: the read fails and main returns the error.
ReadFail ==
    /\ pc = "read"
    /\ pc' = "exit"
    /\ cause' = "ReadError"
    /\ UNCHANGED <<msg, buf, res, pre, fin, plan, sent, log, out, udp, i, opts, track, nth>>

\* The reset that pushes the rejected frame again into the fresh
\* accumulator.
ResetRepushed ==
    /\ pc = "reset"
    /\ msg' = Push(Default, buf).self
    /\ pc' = "check"
    /\ UNCHANGED <<buf, res, pre, fin, plan, sent, log, out, udp, i, opts, cause, track, nth>>

\* Line 183.
Reset ==
    /\ pc = "reset"
    /\ msg' = Default
    /\ pc' = "check"
    /\ UNCHANGED <<buf, res, pre, fin, plan, sent, log, out, udp, i, opts, cause, track, nth>>

\* Line 187: what replaces the accumulator that finish() consumed.
\* The loop without line 187: the consumed accumulator stays in place.
ReplacementKept(self) == self

Replacement(self) == Default

\* Lines 185-187: the accumulator is complete and is taken.
Finish ==
    /\ pc = "check"
    /\ complete(msg)
    /\ fin' = finish(msg)
    /\ msg' = Replacement(msg)
    /\ pc' = "dispatch"
    /\ UNCHANGED <<buf, res, pre, plan, sent, log, out, udp, i, opts, cause, track, nth>>

\* Line 185: it is not.
NotComplete ==
    /\ pc = "check"
    /\ ~complete(msg)
    /\ pc' = "loop"
    /\ UNCHANGED <<msg, buf, res, pre, fin, plan, sent, log, out, udp, i, opts, cause, track, nth>>

\* The skip that leaves the countdown as it is.
SkipStuck ==
    /\ pc = "dispatch"
    /\ fin[1] = HumanType
    /\ i > 0
    /\ i' = i
    /\ nth' = (nth + 1) % (opts.every + 1)
    /\ pc' = "loop"
    /\ UNCHANGED <<msg, buf, res, pre, fin, plan, sent, log, out, udp, opts, cause, track>>

\* Lines 190-192: a human-readable message that the countdown skips.
Skip ==
    /\ pc = "dispatch"
    /\ fin[1] = HumanType
    /\ i > 0
    /\ i' = i - 1
    /\ nth' = (nth + 1) % (opts.every + 1)
    /\ pc' = "loop"
    /\ UNCHANGED <<msg, buf, res, pre, fin, plan, sent, log, out, udp, opts, cause, track>>

\* Lines 193-199: a human-readable message that is printed and, with a
\* target, sent.
Emit ==
    /\ pc = "dispatch"
    /\ fin[1] = HumanType
    /\ ~(i > 0)
    /\ i' = opts.every
    /\ out' = Append(out, idb(fin[2], opts.station))
    /\ udp' = IF opts.target THEN Append(udp, idb(fin[2], opts.station)) ELSE udp
    /\ nth' = (nth + 1) % (opts.every + 1)
    /\ pc' = "loop"
    /\ UNCHANGED <<msg, buf, res, pre, fin, plan, sent, log, opts, cause, track>>

\* Line 198: the record is printed, but sending it fails and main returns
\* the error.
SendFail ==
    /\ pc = "dispatch"
    /\ fin[1] = HumanType
    /\ ~(i > 0)
    /\ opts.target
    /\ i' = opts.every
    /\ out' = Append(out, idb(fin[2], opts.station))
    /\ nth' = (nth + 1) % (opts.every + 1)
    /\ pc' = "exit"
    /\ cause' = "SendError"
    /\ UNCHANGED <<msg, buf, res, pre, fin, plan, sent, log, udp, opts, track>>

\* The other arm printing the body as a record.
UnknownEmitted ==
    /\ pc = "dispatch"
    /\ fin[1] # HumanType
    /\ out' = Append(out, fin[2])
    /\ pc' = "loop"
    /\ UNCHANGED <<msg, buf, res, pre, fin, plan, sent, log, udp, i, opts, cause, track, nth>>

\* Line 206: any other type.
Unknown ==
    /\ pc = "dispatch"
    /\ fin[1] # HumanType
    /\ log' = Append(log, UnknownWarning(fin[1], fin[2]))
    /\ pc' = "loop"
    /\ UNCHANGED <<msg, buf, res, pre, fin, plan, sent, out, udp, i, opts, cause, track, nth>>

\* Line 209: the loop starts over.
Loop ==
    /\ pc = "loop"
    /\ pc' = "read"
    /\ buf' = NoBuf
    /\ res' = "None"
    /\ pre' = Default
    /\ fin' = <<>>
    /\ log' = <<>>
    /\ out' = <<>>
    /\ udp' = <<>>
    /\ UNCHANGED <<msg, plan, sent, i, opts, cause, track, nth>>

Next ==
    \/ ReadPush
    \/ ReadFail
    \/ Reset
    \/ Finish
    \/ NotComplete
    \/ Skip
    \/ Emit
    \/ SendFail
    \/ Unknown
    \/ Loop

Spec == Init /\ [][Next]_vars

(***************************************************************************)
(* The encoder alone: the control loop at line 188 with a human-readable   *)
(* message just taken, whose body is a list of tokens joined by single     *)
(* spaces.  sent holds the tokens.                                         *)
(***************************************************************************)
MaxTokens == 34

\* The texts between the separators, joined by the separator.
Join(pieces, sep) ==
    Concat([k \in 1..Len(pieces) |-> IF k = 1 THEN pieces[k] ELSE <<sep>> \o pieces[k]])

One == <<49>>                   \* "1"
Dashes == <<45, 46, 45>>        \* "-.-"
\* "-.-", "", "-", ".", "NE", "4.5"
Alternatives == {Dashes, <<>>, <<45>>, <<46>>, <<78, 69>>, <<52, 46, 53>>}

\* "0 2023-05-01 12:30 -.- 45"
ExampleTokens ==
    <<<<48>>, <<50, 48, 50, 51, 45, 48, 53, 45, 48, 49>>, <<49, 50, 58, 51, 48>>,
      Dashes, <<52, 53>>>>

\* Bodies of up to MaxTokens tokens: every token "1" but one, every token
\* a placeholder but one, and the example.
TokenLists ==
    {ExampleTokens}
        \cup {[k \in 1..n |-> One] : n \in 1..MaxTokens}
        \cup {[k \in 1..n |-> Dashes] : n \in 1..MaxTokens}
        \cup UNION {{[k \in 1..n |-> IF k = p THEN a ELSE One] : p \in 1..n, a \in Alternatives} :
                       n \in 1..MaxTokens}
        \cup UNION {{[k \in 1..n |-> IF k = p THEN One ELSE Dashes] : p \in 1..n} :
                       n \in 1..MaxTokens}

StationS1 == <<115, 49>>  \* "s1"
Stations == {Station, StationS1}

InitIdb ==
    /\ msg = Default
    /\ buf = NoBuf
    /\ res = "None"
    /\ pre = Default
    /\ pc = "dispatch"
    /\ sent \in TokenLists
    /\ fin = <<HumanType, Join(sent, Space)>>
    /\ plan = NoPlan
    /\ log = <<>>
    /\ out = <<>>
    /\ udp = <<>>
    /\ i = 0
    /\ opts \in {[every |-> 0, station |-> st, target |-> FALSE] : st \in Stations}
    /\ cause = ""
    /\ track = NoTrack
    /\ nth = 0

NextIdb == Emit

SpecIdb == InitIdb /\ [][NextIdb]_vars

(***************************************************************************)
(* Properties of the encoder.                                              *)
(***************************************************************************)
\* The record has been printed for the body of tokens sent.
Encoded == pc = "loop" /\ fin # <<>> /\ fin[1] = HumanType /\ Len(out) = 1

\* "weather,station=s1 indoor_humidity=45"
ExampleShort ==
    <<119, 101, 97, 116, 104, 101, 114, 44, 115, 116, 97, 116, 105, 111, 110, 61,
      115, 49, 32, 105, 110, 100, 111, 111, 114, 95, 104, 117, 109, 105, 100, 105,
      116, 121, 61, 52, 53>>

\* "weather,station=s1 channel=0,indoor_humidity=45"
ExampleLong ==
    <<119, 101, 97, 116, 104, 101, 114, 44, 115, 116, 97, 116, 105, 111, 110, 61,
      115, 49, 32, 99, 104, 97, 110, 110, 101, 108, 61, 48, 44, 105, 110, 100, 111,
      111, 114, 95, 104, 117, 109, 105, 100, 105, 116, 121, 61, 52, 53>>

IsExample == Encoded /\ sent = ExampleTokens /\ opts.station = StationS1

\* C11 as stated: the body "0 2023-05-01 12:30 -.- 45" with station "s1"
\* encodes to exactly "weather,station=s1 indoor_humidity=45".
ExampleEncodesShort == IsExample => out[1] = ExampleShort

\* C11 as amended: it encodes to exactly
\* "weather,station=s1 channel=0,indoor_humidity=45": the placeholder
\* temperature is omitted and the date and time are suppressed, but the
\* channel is emitted.
ExampleEncodesLong == IsExample => out[1] = ExampleLong

ExampleWitness == IsExample /\ Len(out[1]) > Len(ExampleShort)

\* What the record is said to hold, read off the tokens sent: the positions
\* of the date and the time, the position of the wind octant, the positions
\* whose field is written, and the text of a field.
Suppressed == {2, 3}
OctantPos == 13
OnlyDashDot(token) == \A k \in DOMAIN token : token[k] \in {45, 46}

EmittedAt(tokens) ==
    {k \in 1..Len(tokens) :
        k <= Len(Keys) /\ k \notin Suppressed /\ ~OnlyDashDot(tokens[k])}

Rendered(tokens, k) ==
    Keys[k] \o <<61>> \o
        (IF k = OctantPos THEN <<34>> \o tokens[k] \o <<34>> ELSE tokens[k])

Header(station) == Measurement \o station

\* The pieces of a text between the occurrences of a separator.
Pieces(s, sep) ==
    LET IsCut(k) == k = 0 \/ k = Len(s) + 1 \/ s[k] = sep
        cuts == SelectSeq([j \in 1..(Len(s) + 2) |-> j - 1], IsCut)
    IN  [j \in 1..(Len(cuts) - 1) |-> SubSeq(s, cuts[j] + 1, cuts[j + 1] - 1)]

\* The fields of a record: what follows the header and one space, cut at
\* the commas.  No token sent holds a comma.
FieldsOf(line, station) ==
    LET h == Len(Header(station))
    IN  IF Len(line) <= h + 1 THEN <<>>
        ELSE Pieces(SubSeq(line, h + 2, Len(line)), 44)

Range(f) == {f[k] : k \in DOMAIN f}

\* C12: a positional field is left out exactly when its token is made of
\* '-' and '.' only (the date and time positions are always left out), no
\* field has an empty value, every other token is written verbatim as
\* key=token, and the value of the wind octant alone is in double quotes.
FieldsVerbatimOrOmitted ==
    Encoded =>
        LET fields == FieldsOf(out[1], opts.station)
        IN  /\ Range(fields) = {Rendered(sent, k) : k \in EmittedAt(sent)}
            /\ Len(fields) = Cardinality(EmittedAt(sent))
            /\ \A k \in DOMAIN fields :
                   /\ fields[k][Len(fields[k])] # 61
                   /\ (34 \in Range(fields[k])) <=>
                          (OctantPos \in EmittedAt(sent)
                              /\ fields[k] = Rendered(sent, OctantPos))

FieldsWitness ==
    /\ Encoded
    /\ Len(sent) > OctantPos
    /\ sent[1] = Dashes
    /\ sent[OctantPos] = One
    /\ Len(FieldsOf(out[1], opts.station)) = 1

\* C13: the record starts with "weather,station=<station>", lists the
\* fields written joined by commas in the order of the keys, the i-th token
\* under the i-th key and the tokens past the last key ignored, and does not
\* end with a comma, a space or a newline, also when the body has fewer
\* tokens than there are keys or when no field is written.
RecordShape ==
    Encoded =>
        LET at == SelectSeq([k \in 1..Len(Keys) |-> k], LAMBDA k : k \in EmittedAt(sent))
            fields == [j \in 1..Len(at) |-> Rendered(sent, at[j])]
            line == out[1]
        IN  /\ line = Header(opts.station) \o
                        (IF fields = <<>> THEN <<>> ELSE <<32>> \o Join(fields, 44))
            /\ line[Len(line)] \notin {44, 32, 10}

RecordShapeWitness ==
    /\ Encoded
    /\ Len(sent) > Len(Keys)
    /\ \A k \in DOMAIN sent : sent[k] = One

ShortBody == pc = "loop" /\ fin # <<>> /\ fin[1] = HumanType /\ Len(sent) < Len(Keys)

\* C14 as stated: a completed 0xfe message whose body has fewer tokens
\* than the field shape requires yields a TruncatedMessage error, and no
\* record is produced from it.
ShortBodyRejected ==
    ShortBody => out = <<>> /\ udp = <<>> /\ cause = "TruncatedMessage"

\* C14 as amended: such a body yields no error; a record is printed that
\* starts with the header and holds the fields of the tokens present, and
\* nothing else.
ShortBodyEncoded ==
    ShortBody =>
        /\ cause = ""
        /\ Len(out) = 1
        /\ Len(out[1]) >= Len(Header(opts.station))
        /\ SubSeq(out[1], 1, Len(Header(opts.station))) = Header(opts.station)
        /\ LET fields == FieldsOf(out[1], opts.station)
           IN  /\ Len(fields) <= Len(sent)
               /\ \A j \in DOMAIN fields :
                      \E k \in 1..Len(sent) : fields[j] = Rendered(sent, k)

ShortBodyWitness ==
    /\ ShortBody
    /\ Len(sent) = 5
    /\ Len(FieldsOf(out[1], opts.station)) = 3

(***************************************************************************)
(* Properties of the control loop.                                         *)
(***************************************************************************)
Recoverable == {"Format", "Complete", "Utf8Error"}

\* C8: a push that returns Buffer ends the process with nothing reset or
\* delivered; a push that returns Format, Complete or Utf8Error does not
\* end the process, and the accumulator is a fresh one before the next
\* frame is read.
FatalOrReset ==
    /\ res = "Buffer" =>
          /\ pc = "exit"
          /\ cause = "Buffer"
          /\ msg = pre
          /\ fin = <<>> /\ out = <<>> /\ udp = <<>>
    /\ res \in Recoverable =>
          /\ pc \in {"reset", "check", "loop"}
          /\ cause = ""
          /\ pc # "reset" => msg = Default
          /\ fin = <<>>

\* A sequencing error while a message was being assembled: the loop is
\* about to read the next frame with an empty accumulator.
FatalOrResetWitness ==
    /\ pc = "loop"
    /\ res = "Format"
    /\ pre.current > 0
    /\ msg = Default

\* C9 as stated: each of Format, Complete and Utf8Error is logged as a
\* warning whenever it occurs, before the accumulator is reset.
EveryRecoverableLogged ==
    (pc = "reset" /\ res \in Recoverable) => log = <<AssemblerWarning(res)>>

\* C9 as amended: Format and Utf8Error are logged as a warning whenever
\* they occur, before the accumulator is reset; Complete resets the
\* accumulator without a log entry.
RecoverableLoggedButComplete ==
    res \in Recoverable =>
        log = IF res = "Complete" THEN <<>> ELSE <<AssemblerWarning(res)>>

\* An encoding error is in the log and the accumulator, not yet reset,
\* still holds a fragment.
LoggedWitness ==
    /\ pc = "reset"
    /\ res = "Utf8Error"
    /\ msg.current > 0
    /\ log = <<AssemblerWarning("Utf8Error")>>

\* The accumulator as the push of this iteration left it.
AfterPush == Push(pre, buf).self

\* C10 as stated: finish() is invoked only on a complete accumulator; every
\* accumulator that becomes complete is consumed right after the push that
\* completed it and replaced by a fresh one, so that no frame is pushed
\* into a delivered accumulator.
EveryCompleteConsumed ==
    /\ pc = "read" => ~complete(msg)
    /\ fin # <<>> => complete(AfterPush) /\ fin = finish(AfterPush) /\ msg = Default
    /\ (pc \in {"dispatch", "loop"} /\ complete(AfterPush)) => fin # <<>>

\* C10 as amended: every accumulator that becomes complete by a push that
\* returns Ok is consumed so; one that a push returning Complete leaves
\* complete is discarded by the reset and never consumed.
CompleteByOkConsumed ==
    /\ pc = "read" => ~complete(msg)
    /\ fin # <<>> =>
          /\ res = "Ok"
          /\ complete(AfterPush)
          /\ fin = finish(AfterPush)
          /\ msg = Default
    /\ (pc \in {"dispatch", "loop", "exit"} /\ complete(AfterPush)) =>
          IF res = "Ok" THEN fin # <<>> ELSE res = "Complete" /\ fin = <<>>

\* A message of more than one fragment has been consumed and the loop is
\* about to read on.
ConsumedWitness ==
    /\ pc = "loop"
    /\ fin # <<>>
    /\ pre.current > 0
    /\ msg = Default

\* C15: in the control loop a completed message whose type is not 0xfe is
\* no error: no record is printed or sent for it, the process does not
\* end, its body is dropped, and the loop goes on to the next read with a
\* fresh empty accumulator.
UnknownIgnored ==
    (fin # <<>> /\ fin[1] # HumanType) =>
        /\ out = <<>>
        /\ udp = <<>>
        /\ cause = ""
        /\ pc \in {"dispatch", "loop"}
        /\ msg = Default

UnknownWitness ==
    /\ pc = "loop"
    /\ fin # <<>>
    /\ fin[1] = 251
    /\ Len(fin[2]) > 0
    /\ log = <<UnknownWarning(251, fin[2])>>

(***************************************************************************)
(* Further properties of the accumulator.                                  *)
(***************************************************************************)
\* C16: for every accumulator state and every 64-byte buffer, also one
\* whose payload-length byte exceeds 54, push returns Ok, Complete, Format
\* or Utf8Error; it never panics while slicing the payload.
PushNeverPanics ==
    (Called /\ Len(buf) = FrameLen) => res \in {"Ok", "Complete", "Format", "Utf8Error"}

\* The result the stated precedence gives.
ByPrecedence(self, b) ==
    IF Len(b) # FrameLen THEN "Buffer"
    ELSE IF self.current >= DeclaredAfter(self, b) THEN "Complete"
    ELSE IF Violated(self, b) # {} THEN "Format"
    ELSE IF ~IsUtf8(SubSeq(b, 8, 7 + PayloadLength(b))) THEN "Utf8Error"
    ELSE "Ok"

\* C19: a push that returns Format, Complete or Utf8Error leaves data and
\* received_fragments unchanged, and type and total unchanged when the
\* type was non-zero; when the type was unset, the type and total of the
\* rejected frame are adopted.  When several conditions hold the result is
\* Buffer first, then Complete (also for an empty accumulator and a frame
\* of total 0), then Format, then Utf8Error.
RejectedAdoptsByPrecedence ==
    Called =>
        /\ res \in {"Format", "Complete", "Utf8Error"} =>
              /\ msg.data = pre.data
              /\ msg.current = pre.current
              /\ pre.typ # 0 => msg.typ = pre.typ /\ msg.length = pre.length
              /\ pre.typ = 0 => msg.typ = MsgType(buf) /\ msg.length = MsgLength(buf)
        /\ res = ByPrecedence(pre, buf)

(***************************************************************************)
(* Further properties of the control loop.                                 *)
(***************************************************************************)
\* C17: every message the loop delivers as (t, body) has t non-zero, and
\* body is the concatenation of the payloads of N consecutively read
\* frames that all carry type t, total N, the indices 1..N in order and
\* the end marker; no payload of a frame of another type (type 0 in
\* particular) or of an earlier aborted message is in a delivered body.
DeliveredIsOneMessage ==
    fin # <<>> =>
        /\ fin[1] # 0
        /\ track.k >= 1
        /\ track.k = track.n
        /\ fin = <<track.t, track.body>>

\* A frame has been read and pushed in this iteration.
Pushed == buf # NoBuf

\* C18: the frame whose push returned a recoverable error is dropped and
\* not pushed again into the fresh accumulator; so after a recoverable
\* error, when the next N frames read are a valid N-fragment message in
\* order, every one of them is accepted and the message is delivered after
\* its N-th frame, while a valid message whose own first fragment got the
\* error is never delivered.
ErrorFrameDropped ==
    /\ (Pushed /\ res \in Recoverable) =>
          /\ fin = <<>>
          /\ pc \in {"check", "loop"} => msg = Default
    /\ (Pushed /\ track.k >= 1 /\ track.after) =>
          /\ res = "Ok"
          /\ pc \in {"check", "dispatch", "loop", "exit"}
          /\ track.k < track.n => fin = <<>> /\ msg.current = track.k
          /\ (track.k = track.n /\ pc = "check") =>
                complete(msg) /\ finish(msg) = <<track.t, track.body>>
          /\ (track.k = track.n /\ pc # "check") => fin = <<track.t, track.body>>
    /\ (Pushed /\ track.k >= 1 /\ track.lost) =>
          /\ res \in Recoverable
          /\ fin = <<>>

\* The second and last fragment of a message whose first fragment, read
\* right after a recoverable error, has been delivered.
ErrorFrameDroppedWitness ==
    /\ pc = "loop"
    /\ track.after
    /\ track.k = 2
    /\ track.n = 2
    /\ fin = <<track.t, track.body>>

\* C20: with --every k >= 0, of the completed 0xfe messages in the order
\* of completion the loop emits the first, skips the next k, emits the
\* next, and so on (the messages 1, k + 2, 2k + 3, ...); completed
\* messages of other types and reassembly errors do not advance the
\* countdown; with k = 0 every completed 0xfe message is emitted.  nth is
\* the number of completed 0xfe messages modulo k + 1.
EmitsEveryKPlusOne ==
    LET k == opts.every
    IN  /\ i = (k + 1 - nth) % (k + 1)
        /\ (fin # <<>> /\ fin[1] = HumanType /\ pc \in {"loop", "exit"}) =>
              /\ Len(out) = (IF nth = 1 % (k + 1) THEN 1 ELSE 0)
              /\ k = 0 => Len(out) = 1
        /\ (fin # <<>> /\ fin[1] # HumanType) => out = <<>>

\* With --every 2 the third 0xfe message of a cycle has been skipped.
EmitsWitness ==
    /\ opts.every = 2
    /\ pc = "loop"
    /\ fin # <<>>
    /\ fin[1] = HumanType
    /\ nth = 0
    /\ i = 0
    /\ out = <<>>

====
